---- MODULE Spec2Model ----
(***************************************************************************)
(* Model of the push-to-talk dictation tool local_whisper_dictator.py.     *)
(*                                                                         *)
(* Threads: the pynput listener thread (on_press / on_release, one event   *)
(* at a time), the sounddevice capture callback thread (audio_callback),   *)
(* one worker thread per stop event (process_audio_for_transcription) and  *)
(* the tray thread (on_exit).  The globals of the script are the model's   *)
(* variables; every statement that reads or writes a global shared with    *)
(* another thread is its own step.                                         *)
(*                                                                         *)
(* Init is the state once main() has loaded the model, started the         *)
(* listener and created the tray icon (icon is set, showing IDLE_ICON).    *)
(***************************************************************************)
EXTENDS Naturals, Sequences, FiniteSets

\* ---- bounds ----
MaxSessions == 2
MaxFrames == 2
MaxInputLen == 3
MaxNumber == 15

\* ---- configuration ----
HOTKEY_KEY == "alt_r"
Keys == {HOTKEY_KEY, "other"}

Sessions == 1..MaxSessions

\* The segment lists the engine may yield (segment.text of each segment).
SegmentLists ==
  { <<>>,
    << <<" ">> >>,
    << <<" ", "h">>, <<>> >>,
    << <<" ", "h", "i">> >> }

VARIABLES
  alive,               \* FALSE once on_exit has called os._exit(0)
  is_recording,        \* global is_recording
  current_audio_data,  \* global current_audio_data: sequence of frames <<session, n>>
  icon_state,          \* what icon.icon / icon.title show
  audio_stream,        \* global audio_stream: "none" (None), or the state of the
                       \* stream object it holds: "unstarted", "active", "closed"
  hk_pc,               \* position of the listener thread
  key,                 \* the key of the event being dispatched
  hk_last,             \* "press_noop" / "release_noop" when the last handler returned at its guard
  session,             \* number of Idle -> Recording transitions so far
  nframes,             \* blocks the active stream has passed to audio_callback
  cb_pc,               \* position of the capture callback thread
  delivered,           \* per session whose worker has not ended: the frames
                       \* audio_callback appended, in order
  w_pc,                \* per worker: position in process_audio_for_transcription
  w_audio,             \* per worker: recorded_audio handed to model.transcribe
  w_text,              \* per worker: transcribed_text
  w_i,                 \* per worker: index of the next character type_text handles
  w_keys,              \* per worker: events the keyboard controller emitted
  observed,            \* what a user sees of the first session: the indicator
                       \* states shown and "typist" when type_text is called
  m_pc,                \* data.py: position in manual_entry
  m_inp,               \* data.py: inp, the stripped line read by input()
  m_ret                \* data.py: the value manual_entry returned

vars == <<alive, is_recording, current_audio_data, icon_state, audio_stream,
          hk_pc, key, hk_last, session, nframes, cb_pc, delivered, w_pc,
          w_audio, w_text, w_i, w_keys, observed, m_pc, m_inp, m_ret>>

hkVars == <<is_recording, icon_state, audio_stream, hk_pc, key,
            hk_last, session>>
cbVars == <<nframes, cb_pc>>
wVars == <<w_pc, w_audio, w_text, w_i, w_keys, delivered>>
\* the variables of data.py
dVars == <<m_pc, m_inp, m_ret>>
\* the variables of local_whisper_dictator.py
dictVars == <<alive, is_recording, current_audio_data, icon_state,
              audio_stream, hk_pc, key, hk_last, session, nframes, cb_pc,
              delivered, w_pc, w_audio, w_text, w_i, w_keys, observed>>

\* ---- pure helpers ----

\* " ".join(full_text)
RECURSIVE Join(_)
Join(segs) ==
  IF segs = <<>> THEN <<>>
  ELSE IF Len(segs) = 1 THEN Head(segs)
  ELSE Head(segs) \o <<" ">> \o Join(Tail(segs))

RECURSIVE LStrip(_)
LStrip(s) ==
  IF s # <<>> /\ Head(s) = " " THEN LStrip(Tail(s)) ELSE s

RECURSIVE RStrip(_)
RStrip(s) ==
  IF s # <<>> /\ s[Len(s)] = " " THEN RStrip(SubSeq(s, 1, Len(s) - 1)) ELSE s

\* str.strip()
Strip(s) == RStrip(LStrip(s))

\* transcribed_text = " ".join(full_text).strip()
TranscribedText(segs) == Strip(Join(segs))

\* manual_entry has not returned
NoValue == [m |-> 0, d |-> 0, set |-> FALSE]

WorkerTerminated == {"done", "returned", "concat_failed", "icon_failed"}

\* worker w has been spawned and has not finished
WorkerLive(w) == w_pc[w] \notin ({"none"} \cup WorkerTerminated)

Transcribing == \E w \in Sessions : WorkerLive(w)

Init ==
  /\ alive = TRUE
  /\ is_recording = FALSE
  /\ current_audio_data = <<>>
  /\ icon_state = "Idle"
  /\ audio_stream = "none"
  /\ hk_pc = "wait"
  /\ key = "none"
  /\ hk_last = "none"
  /\ session = 0
  /\ nframes = 0
  /\ cb_pc = "idle"
  /\ delivered = [s \in Sessions |-> <<>>]
  /\ w_pc = [s \in Sessions |-> "none"]
  /\ w_audio = [s \in Sessions |-> <<>>]
  /\ w_text = [s \in Sessions |-> <<>>]
  /\ w_i = [s \in Sessions |-> 0]
  /\ w_keys = [s \in Sessions |-> <<>>]
  /\ observed = <<"Idle">>
  /\ m_pc = "prompt"
  /\ m_inp = <<>>
  /\ m_ret = NoValue

\* ---- listener thread ----

\* The listener receives a key-down event and calls on_press(key).
KeyDown ==
  /\ alive /\ hk_pc = "wait"
  /\ \E k \in Keys :
       /\ k = HOTKEY_KEY => (is_recording \/ session < MaxSessions)
       /\ key' = k
  /\ hk_pc' = "on_press"
  /\ hk_last' = "none"
  /\ UNCHANGED <<alive, is_recording, current_audio_data, icon_state,
                 audio_stream, session>>
  /\ UNCHANGED cbVars /\ UNCHANGED wVars
  /\ UNCHANGED observed /\ UNCHANGED dVars

\* The listener receives a key-up event and calls on_release(key).
KeyUp ==
  /\ alive /\ hk_pc = "wait"
  /\ \E k \in Keys : key' = k
  /\ hk_pc' = "on_release"
  /\ hk_last' = "none"
  /\ UNCHANGED <<alive, is_recording, current_audio_data, icon_state,
                 audio_stream, session>>
  /\ UNCHANGED cbVars /\ UNCHANGED wVars
  /\ UNCHANGED observed /\ UNCHANGED dVars

\* on_press -> start_recording, up to and including the accumulator reset.
OnPress_NoGuard ==
  /\ alive /\ hk_pc = "on_press"
  /\ IF key = HOTKEY_KEY /\ session < MaxSessions
       THEN /\ is_recording' = TRUE
            /\ current_audio_data' = <<>>
            /\ session' = session + 1
            /\ hk_pc' = "start_icon"
            /\ UNCHANGED <<hk_last, key>>
       ELSE /\ hk_pc' = "wait"
            /\ key' = "none"
            /\ UNCHANGED <<hk_last, is_recording, current_audio_data, session>>
  /\ UNCHANGED <<alive, icon_state, audio_stream>>
  /\ UNCHANGED cbVars /\ UNCHANGED wVars
  /\ observed' = IF session' > 1 THEN <<>> ELSE observed
  /\ UNCHANGED dVars

OnPress_NoClear ==
  /\ alive /\ hk_pc = "on_press"
  /\ IF key = HOTKEY_KEY /\ ~is_recording
       THEN /\ is_recording' = TRUE
            /\ session' = session + 1
            /\ hk_pc' = "start_icon"
            /\ UNCHANGED <<hk_last, key, current_audio_data>>
       ELSE /\ hk_pc' = "wait"
            /\ hk_last' = IF key = HOTKEY_KEY THEN "press_noop" ELSE "none"
            /\ key' = "none"
            /\ UNCHANGED <<is_recording, current_audio_data, session>>
  /\ UNCHANGED <<alive, icon_state, audio_stream>>
  /\ UNCHANGED cbVars /\ UNCHANGED wVars
  /\ observed' = IF session' > 1 THEN <<>> ELSE observed
  /\ UNCHANGED dVars

OnPress ==
  /\ alive /\ hk_pc = "on_press"
  /\ IF key = HOTKEY_KEY /\ ~is_recording
       THEN /\ is_recording' = TRUE
            /\ current_audio_data' = <<>>
            /\ session' = session + 1
            /\ hk_pc' = "start_icon"
            /\ UNCHANGED <<hk_last, key>>
       ELSE /\ hk_pc' = "wait"
            /\ hk_last' = IF key = HOTKEY_KEY THEN "press_noop" ELSE "none"
            /\ key' = "none"
            /\ UNCHANGED <<is_recording, current_audio_data, session>>
  /\ UNCHANGED <<alive, icon_state, audio_stream>>
  /\ UNCHANGED cbVars /\ UNCHANGED wVars
  /\ observed' = IF session' > 1 THEN <<>> ELSE observed
  /\ UNCHANGED dVars

\* icon.icon = LISTENING_ICON; icon.title = ...  (not inside any try block:
\* an exception leaves start_recording and on_press, and pynput stops the
\* listener whose callback raised).
StartIcon ==
  /\ alive /\ hk_pc = "start_icon"
  /\ \/ /\ icon_state' = "Listening"
        /\ hk_pc' = "start_open"
        /\ UNCHANGED key
     \/ /\ hk_pc' = "stopped"
        /\ key' = "none"
        /\ UNCHANGED icon_state
  /\ UNCHANGED <<alive, is_recording, current_audio_data, audio_stream, hk_last, session>>
  /\ UNCHANGED cbVars /\ UNCHANGED wVars
  /\ observed' = IF session = 1 /\ icon_state' # icon_state
                  THEN Append(observed, icon_state') ELSE observed
  /\ UNCHANGED dVars

\* try: audio_stream = sd.InputStream(...); audio_stream.start()
\* except Exception: is_recording = False
StartOpen_NoReset ==
  /\ alive /\ hk_pc = "start_open"
  /\ \/ /\ audio_stream' = "active"
        /\ UNCHANGED is_recording
     \/ /\ audio_stream' \in {audio_stream, "unstarted"}
        /\ UNCHANGED is_recording
  /\ hk_pc' = "wait"
  /\ key' = "none"
  /\ UNCHANGED <<alive, current_audio_data, icon_state, hk_last, session>>
  /\ UNCHANGED cbVars /\ UNCHANGED wVars
  /\ UNCHANGED observed /\ UNCHANGED dVars

StartOpen ==
  /\ alive /\ hk_pc = "start_open"
  /\ \/ /\ audio_stream' = "active"
        /\ UNCHANGED is_recording
     \/ \* InputStream(...) raised (audio_stream keeps its value) or
        \* start() raised (audio_stream is the new, never started stream)
        /\ audio_stream' \in {audio_stream, "unstarted"}
        /\ is_recording' = FALSE
  /\ hk_pc' = "wait"
  /\ key' = "none"
  /\ UNCHANGED <<alive, current_audio_data, icon_state, hk_last, session>>
  /\ UNCHANGED cbVars /\ UNCHANGED wVars
  /\ UNCHANGED observed /\ UNCHANGED dVars

\* on_release -> stop_recording_and_transcribe, up to is_recording = False.
OnRelease_NoGuard ==
  /\ alive /\ hk_pc = "on_release"
  /\ IF key = HOTKEY_KEY /\ (is_recording \/ (session > 0 /\ w_pc[session] = "none"))
       THEN /\ is_recording' = FALSE
            /\ hk_pc' = "stop_stream"
            /\ UNCHANGED <<hk_last, key>>
       ELSE /\ hk_pc' = "wait"
            /\ key' = "none"
            /\ UNCHANGED <<hk_last, is_recording>>
  /\ UNCHANGED <<alive, current_audio_data, icon_state, audio_stream, session>>
  /\ UNCHANGED cbVars /\ UNCHANGED wVars
  /\ UNCHANGED observed /\ UNCHANGED dVars

OnRelease ==
  /\ alive /\ hk_pc = "on_release"
  /\ IF key = HOTKEY_KEY /\ is_recording
       THEN /\ is_recording' = FALSE
            /\ hk_pc' = "stop_stream"
            /\ UNCHANGED <<hk_last, key>>
       ELSE /\ hk_pc' = "wait"
            /\ hk_last' = IF key = HOTKEY_KEY THEN "release_noop" ELSE "none"
            /\ key' = "none"
            /\ UNCHANGED is_recording
  /\ UNCHANGED <<alive, current_audio_data, icon_state, audio_stream, session>>
  /\ UNCHANGED cbVars /\ UNCHANGED wVars
  /\ UNCHANGED observed /\ UNCHANGED dVars

\* if audio_stream and audio_stream.stopped == False: stop(); close()
\* stop() returns only once a callback in progress has returned.
StopStream ==
  /\ alive /\ hk_pc = "stop_stream"
  /\ IF audio_stream = "active"
       THEN /\ cb_pc = "idle"
            /\ audio_stream' = "closed"
            /\ nframes' = 0
       ELSE UNCHANGED <<audio_stream, nframes>>
  /\ hk_pc' = "stop_icon"
  /\ UNCHANGED <<alive, is_recording, current_audio_data, icon_state,
                 key, hk_last, session, cb_pc>>
  /\ UNCHANGED wVars
  /\ UNCHANGED observed /\ UNCHANGED dVars

\* (variant: the stop path does not show the Transcribing state)
StopIcon_NoUpdate ==
  /\ alive /\ hk_pc = "stop_icon"
  /\ \/ /\ hk_pc' = "spawn"
        /\ UNCHANGED key
     \/ /\ hk_pc' = "stopped"
        /\ key' = "none"
  /\ UNCHANGED <<alive, is_recording, current_audio_data, icon_state,
                 audio_stream, hk_last, session>>
  /\ UNCHANGED cbVars /\ UNCHANGED wVars
  /\ UNCHANGED observed /\ UNCHANGED dVars

\* icon.icon = TRANSCRIBING_ICON; icon.title = ...  (not inside any try block)
StopIcon ==
  /\ alive /\ hk_pc = "stop_icon"
  /\ \/ /\ icon_state' = "Transcribing"
        /\ hk_pc' = "spawn"
        /\ UNCHANGED key
     \/ /\ hk_pc' = "stopped"
        /\ key' = "none"
        /\ UNCHANGED icon_state
  /\ UNCHANGED <<alive, is_recording, current_audio_data, audio_stream, hk_last, session>>
  /\ UNCHANGED cbVars /\ UNCHANGED wVars
  /\ observed' = IF session = 1 /\ icon_state' # icon_state
                  THEN Append(observed, icon_state') ELSE observed
  /\ UNCHANGED dVars

\* threading.Thread(target=process_audio_for_transcription).start()
Spawn ==
  /\ alive /\ hk_pc = "spawn"
  /\ w_pc' = [w_pc EXCEPT ![session] = "check1"]
  /\ hk_pc' = "wait"
  /\ key' = "none"
  /\ UNCHANGED <<alive, is_recording, current_audio_data, icon_state,
                 audio_stream, hk_last, session>>
  /\ UNCHANGED cbVars /\ UNCHANGED <<w_audio, w_text, w_i, w_keys, delivered>>
  /\ UNCHANGED observed /\ UNCHANGED dVars

\* ---- capture callback thread ----

\* (variant: the callback appends without looking at is_recording)
CbCheck_NoGuard ==
  /\ alive /\ audio_stream = "active" /\ cb_pc = "idle"
  /\ nframes < MaxFrames
  /\ nframes' = nframes + 1
  /\ cb_pc' = "append"
  /\ UNCHANGED <<alive, current_audio_data>>
  /\ UNCHANGED hkVars /\ UNCHANGED wVars
  /\ UNCHANGED observed /\ UNCHANGED dVars

\* The open stream calls audio_callback with the next block; the callback
\* reads is_recording.
CbCheck ==
  /\ alive /\ audio_stream = "active" /\ cb_pc = "idle"
  /\ nframes < MaxFrames
  /\ nframes' = nframes + 1
  /\ cb_pc' = IF is_recording THEN "append" ELSE "idle"
  /\ UNCHANGED <<alive, current_audio_data>>
  /\ UNCHANGED hkVars /\ UNCHANGED wVars
  /\ UNCHANGED observed /\ UNCHANGED dVars

\* current_audio_data.append(indata.copy())
CbAppend ==
  /\ alive /\ cb_pc = "append"
  /\ current_audio_data' = Append(current_audio_data, <<session, nframes>>)
  /\ delivered' = [delivered EXCEPT
                     ![session] = Append(@, <<session, nframes>>)]
  /\ cb_pc' = "idle"
  /\ UNCHANGED <<alive, nframes>>
  /\ UNCHANGED hkVars /\ UNCHANGED <<w_pc, w_audio, w_text, w_i, w_keys>>
  /\ UNCHANGED observed /\ UNCHANGED dVars

\* ---- worker threads ----

\* The thread of worker w ends in state how; its locals (recorded_audio,
\* transcribed_text, the loop variable and the keyboard controller) die with it.
WorkerEnds(w, how) ==
  /\ w_pc' = [w_pc EXCEPT ![w] = how]
  /\ w_audio' = [w_audio EXCEPT ![w] = <<>>]
  /\ w_text' = [w_text EXCEPT ![w] = <<>>]
  /\ w_i' = [w_i EXCEPT ![w] = 0]
  /\ w_keys' = [w_keys EXCEPT ![w] = <<>>]
  /\ delivered' = [delivered EXCEPT ![w] = <<>>]

\* if not current_audio_data: return
WCheck1(w) ==
  /\ alive /\ w_pc[w] = "check1"
  /\ IF current_audio_data = <<>>
       THEN WorkerEnds(w, "returned")
       ELSE /\ w_pc' = [w_pc EXCEPT ![w] = "check2"]
            /\ UNCHANGED <<w_audio, w_text, w_i, w_keys, delivered>>
  /\ UNCHANGED <<alive, current_audio_data>>
  /\ UNCHANGED hkVars /\ UNCHANGED cbVars
  /\ UNCHANGED observed /\ UNCHANGED dVars

\* if current_audio_data: ... else: return
WCheck2(w) ==
  /\ alive /\ w_pc[w] = "check2"
  /\ IF current_audio_data = <<>>
       THEN WorkerEnds(w, "returned")
       ELSE /\ w_pc' = [w_pc EXCEPT ![w] = "concat"]
            /\ UNCHANGED <<w_audio, w_text, w_i, w_keys, delivered>>
  /\ UNCHANGED <<alive, current_audio_data>>
  /\ UNCHANGED hkVars /\ UNCHANGED cbVars
  /\ UNCHANGED observed /\ UNCHANGED dVars

\* recorded_audio = np.concatenate(current_audio_data, axis=0)
\* (raises ValueError on an empty list, outside the try block)
WConcat(w) ==
  /\ alive /\ w_pc[w] = "concat"
  /\ IF current_audio_data = <<>>
       THEN WorkerEnds(w, "concat_failed")
       ELSE /\ w_pc' = [w_pc EXCEPT ![w] = "transcribe"]
            /\ w_audio' = [w_audio EXCEPT ![w] = current_audio_data]
            /\ UNCHANGED <<w_text, w_i, w_keys, delivered>>
  /\ UNCHANGED <<alive, current_audio_data>>
  /\ UNCHANGED hkVars /\ UNCHANGED cbVars
  /\ UNCHANGED observed /\ UNCHANGED dVars

\* (variant: the test on transcribed_text never calls type_text)
WTranscribe_SkipTyping(w) ==
  /\ alive /\ w_pc[w] = "transcribe"
  /\ \/ \E segs \in SegmentLists :
          /\ w_text' = [w_text EXCEPT ![w] = TranscribedText(segs)]
          /\ w_pc' = [w_pc EXCEPT ![w] = "finally"]
          /\ UNCHANGED w_i
     \/ /\ w_pc' = [w_pc EXCEPT ![w] = "finally"]
        /\ UNCHANGED <<w_text, w_i>>
  /\ UNCHANGED <<alive, current_audio_data, w_audio, w_keys, delivered>>
  /\ UNCHANGED hkVars /\ UNCHANGED cbVars
  /\ UNCHANGED observed /\ UNCHANGED dVars

\* model.transcribe(...), the segment loop, join and strip; on an exception
\* control goes to the except clause and then to finally.
WTranscribe(w) ==
  /\ alive /\ w_pc[w] = "transcribe"
  /\ \/ \E segs \in SegmentLists :
          /\ w_text' = [w_text EXCEPT ![w] = TranscribedText(segs)]
          /\ IF TranscribedText(segs) # <<>>
               THEN /\ w_pc' = [w_pc EXCEPT ![w] = "type"]
                    /\ w_i' = [w_i EXCEPT ![w] = 1]
               ELSE /\ w_pc' = [w_pc EXCEPT ![w] = "finally"]
                    /\ UNCHANGED w_i
     \/ /\ w_pc' = [w_pc EXCEPT ![w] = "finally"]
        /\ UNCHANGED <<w_text, w_i>>
  /\ UNCHANGED <<alive, current_audio_data, w_audio, w_keys, delivered>>
  /\ UNCHANGED hkVars /\ UNCHANGED cbVars
  /\ observed' = IF session = 1 /\ w_pc'[w] = "type"
                  THEN Append(observed, "typist") ELSE observed
  /\ UNCHANGED dVars

\* (variant: the loop presses each character and never releases it)
WType_PressOnly(w) ==
  /\ alive /\ w_pc[w] = "type"
  /\ LET c == w_text[w][w_i[w]] IN
       \/ /\ w_keys' = [w_keys EXCEPT ![w] = Append(@, <<"press", c>>)]
          /\ w_i' = [w_i EXCEPT ![w] = @ + 1]
          /\ w_pc' = [w_pc EXCEPT ![w] =
                        IF w_i[w] = Len(w_text[w]) THEN "finally" ELSE "type"]
       \/ /\ w_pc' = [w_pc EXCEPT ![w] = "finally"]
          /\ UNCHANGED <<w_keys, w_i>>
  /\ UNCHANGED <<alive, current_audio_data, w_audio, w_text, delivered>>
  /\ UNCHANGED hkVars /\ UNCHANGED cbVars
  /\ UNCHANGED observed /\ UNCHANGED dVars

\* One iteration of the loop of type_text: controller.press(char);
\* controller.release(char).  Either call may raise; the exception leaves
\* type_text and is caught by the except clause of the worker.
WType(w) ==
  /\ alive /\ w_pc[w] = "type"
  /\ LET c == w_text[w][w_i[w]] IN
       \/ /\ w_keys' = [w_keys EXCEPT
                          ![w] = @ \o << <<"press", c>>, <<"release", c>> >>]
          /\ w_i' = [w_i EXCEPT ![w] = @ + 1]
          /\ w_pc' = [w_pc EXCEPT ![w] =
                        IF w_i[w] = Len(w_text[w]) THEN "finally" ELSE "type"]
       \/ /\ w_pc' = [w_pc EXCEPT ![w] = "finally"]
          /\ UNCHANGED <<w_keys, w_i>>
       \/ /\ w_keys' = [w_keys EXCEPT ![w] = Append(@, <<"press", c>>)]
          /\ w_pc' = [w_pc EXCEPT ![w] = "finally"]
          /\ UNCHANGED w_i
  /\ UNCHANGED <<alive, current_audio_data, w_audio, w_text, delivered>>
  /\ UNCHANGED hkVars /\ UNCHANGED cbVars
  /\ UNCHANGED observed /\ UNCHANGED dVars

\* (variant: the worker empties the accumulator when it finishes)
WFinally_Discards(w) ==
  /\ alive /\ w_pc[w] = "finally"
  /\ \/ /\ icon_state' = "Idle"
        /\ WorkerEnds(w, "done")
     \/ /\ WorkerEnds(w, "icon_failed")
        /\ UNCHANGED icon_state
  /\ current_audio_data' = <<>>
  /\ UNCHANGED <<alive, is_recording, audio_stream,
                 hk_pc, key, hk_last, session>>
  /\ UNCHANGED cbVars
  /\ observed' = IF session = 1 /\ icon_state' # icon_state
                  THEN Append(observed, icon_state') ELSE observed
  /\ UNCHANGED dVars

\* finally: icon.icon = IDLE_ICON; icon.title = ...
\* (an exception here leaves the thread's target function)
WFinally(w) ==
  /\ alive /\ w_pc[w] = "finally"
  /\ \/ /\ icon_state' = "Idle"
        /\ WorkerEnds(w, "done")
     \/ /\ WorkerEnds(w, "icon_failed")
        /\ UNCHANGED icon_state
  /\ UNCHANGED <<alive, is_recording, current_audio_data, audio_stream,
                 hk_pc, key, hk_last, session>>
  /\ UNCHANGED cbVars
  /\ observed' = IF session = 1 /\ icon_state' # icon_state
                  THEN Append(observed, icon_state') ELSE observed
  /\ UNCHANGED dVars

\* ---- tray thread ----

\* (variant: exit waits until no worker is in flight)
Exit_Graceful ==
  /\ alive /\ ~Transcribing
  /\ alive' = FALSE
  /\ UNCHANGED <<current_audio_data>>
  /\ UNCHANGED hkVars /\ UNCHANGED cbVars /\ UNCHANGED wVars
  /\ UNCHANGED observed /\ UNCHANGED dVars

\* on_exit: icon_instance.stop(); os._exit(0)
Exit ==
  /\ alive
  /\ alive' = FALSE
  /\ UNCHANGED <<current_audio_data>>
  /\ UNCHANGED hkVars /\ UNCHANGED cbVars /\ UNCHANGED wVars
  /\ UNCHANGED observed /\ UNCHANGED dVars

Next ==
  \/ KeyDown
  \/ KeyUp
  \/ OnPress
  \/ StartIcon
  \/ StartOpen
  \/ OnRelease
  \/ StopStream
  \/ StopIcon
  \/ Spawn
  \/ CbCheck
  \/ CbAppend
  \/ \E w \in Sessions : WCheck1(w)
  \/ \E w \in Sessions : WCheck2(w)
  \/ \E w \in Sessions : WConcat(w)
  \/ \E w \in Sessions : WTranscribe(w)
  \/ \E w \in Sessions : WType(w)
  \/ \E w \in Sessions : WFinally(w)
  \/ Exit

Spec == Init /\ [][Next]_vars

\* ---- properties ----

\* ---- data.py ----

Digits == {"0", "1", "5"}
Chars == Digits \cup {".", " ", "M", "G", "T", "B", "g", "b", "x"}

\* The lines a user may type: every string of at most MaxInputLen characters,
\* and the examples of the documentation.
Inputs ==
  UNION {[1..n -> Chars] : n \in 0..MaxInputLen}
    \cup { <<"1", "0", " ", "G", "B">>,
           <<"5", "0", "0", " ", "M", "B">>,
           <<"1", " ", "T", "B">> }

\* str.upper()
Upper(s) ==
  [i \in 1..Len(s) |->
     IF s[i] = "g" THEN "G" ELSE IF s[i] = "b" THEN "B" ELSE s[i]]

\* length of the longest prefix of s made of characters of set
RECURSIVE PrefixLen(_, _)
PrefixLen(s, set) ==
  IF s # <<>> /\ Head(s) \in set THEN 1 + PrefixLen(Tail(s), set) ELSE 0

DigitValue(c) == IF c = "0" THEN 0 ELSE IF c = "1" THEN 1 ELSE 5

RECURSIVE Pow10(_)
Pow10(n) == IF n = 0 THEN 1 ELSE 10 * Pow10(n - 1)

\* the integer written by a string of digits and dots, the dots skipped
RECURSIVE DigitsToInt(_)
DigitsToInt(v) ==
  IF v = <<>> THEN 0
  ELSE IF v[Len(v)] = "." THEN DigitsToInt(SubSeq(v, 1, Len(v) - 1))
  ELSE 10 * DigitsToInt(SubSeq(v, 1, Len(v) - 1)) + DigitValue(v[Len(v)])

\* float(value) for a string of digits and dots: ValueError unless it has at
\* most one dot and at least one digit; the number is m / 10^d.
Float(v) ==
  LET dots == {i \in 1..Len(v) : v[i] = "."}
  IN IF Cardinality(dots) > 1 \/ Cardinality(dots) = Len(v)
       THEN [ok |-> FALSE, m |-> 0, d |-> 0]
       ELSE [ok |-> TRUE,
             m |-> DigitsToInt(v),
             d |-> IF dots = {} THEN 0 ELSE Len(v) - (CHOOSE i \in dots : TRUE)]

UnitMB == <<"M", "B">>
UnitGB == <<"G", "B">>
UnitTB == <<"T", "B">>

\* re.match(r'^([\d.]+)\s*(MB|GB|TB)?$', size_str): the groups, or no match
Match(s) ==
  LET k == PrefixLen(s, Digits \cup {"."})
      rest == SubSeq(s, k + 1, Len(s))
      sp == PrefixLen(rest, {" "})
      unit == SubSeq(rest, sp + 1, Len(rest))
  IN [ok |-> k >= 1 /\ unit \in {<<>>, UnitMB, UnitGB, UnitTB},
      value |-> SubSeq(s, 1, k),
      unit |-> unit]

\* (variant: a gigabyte counted as 1000 megabytes)
parse_size_GB1000(size_str) ==
  LET s == Upper(Strip(size_str))
      g == Match(s)
      f == Float(g.value)
  IN IF ~g.ok \/ ~f.ok THEN [ok |-> FALSE, m |-> 0, d |-> 0]
     ELSE IF g.unit = UnitTB THEN [ok |-> TRUE, m |-> f.m * 1024 * 1024, d |-> f.d]
     ELSE IF g.unit = UnitGB THEN [ok |-> TRUE, m |-> f.m * 1000, d |-> f.d]
     ELSE [ok |-> TRUE, m |-> f.m, d |-> f.d]

\* (variant: the pattern is not anchored at the end of the string)
parse_size_NoAnchor(size_str) ==
  LET s == Upper(Strip(size_str))
      k == PrefixLen(s, Digits \cup {"."})
      f == Float(SubSeq(s, 1, k))
  IN IF k = 0 \/ ~f.ok THEN [ok |-> FALSE, m |-> 0, d |-> 0]
     ELSE [ok |-> TRUE, m |-> f.m, d |-> f.d]

\* parse_size: ok is FALSE when it raises ValueError (no match, or float()
\* rejects the value); otherwise the megabytes are m / 10^d.
parse_size(size_str) ==
  LET s == Upper(Strip(size_str))
      g == Match(s)
      f == Float(g.value)
  IN IF ~g.ok \/ ~f.ok THEN [ok |-> FALSE, m |-> 0, d |-> 0]
     ELSE IF g.unit = UnitTB THEN [ok |-> TRUE, m |-> f.m * 1024 * 1024, d |-> f.d]
     ELSE IF g.unit = UnitGB THEN [ok |-> TRUE, m |-> f.m * 1024, d |-> f.d]
     ELSE [ok |-> TRUE, m |-> f.m, d |-> f.d]

\* inp = input(...).strip()
MPrompt ==
  /\ m_pc = "prompt"
  /\ \E line \in Inputs : m_inp' = Strip(line)
  /\ m_pc' = "entered"
  /\ UNCHANGED m_ret
  /\ UNCHANGED dictVars

\* if not inp: return 0.0
\* try: return parse_size(inp)  except ValueError: print(...) and loop
MEntry ==
  /\ m_pc = "entered"
  /\ IF m_inp = <<>>
       THEN /\ m_ret' = [m |-> 0, d |-> 0, set |-> TRUE]
            /\ m_pc' = "returned"
            /\ UNCHANGED m_inp
       ELSE LET r == parse_size(m_inp) IN
              IF r.ok
                THEN /\ m_ret' = [m |-> r.m, d |-> r.d, set |-> TRUE]
                     /\ m_pc' = "returned"
                     /\ UNCHANGED m_inp
                ELSE /\ m_pc' = "rejected"
                     /\ UNCHANGED <<m_inp, m_ret>>
  /\ UNCHANGED dictVars

\* except ValueError: print("Invalid input ... Try again."), and the loop
\* prompts again
MRetry ==
  /\ m_pc = "rejected"
  /\ m_pc' = "prompt"
  /\ m_inp' = <<>>
  /\ UNCHANGED m_ret
  /\ UNCHANGED dictVars

\* main calls manual_entry again for the next device
MCall ==
  /\ m_pc = "returned"
  /\ m_pc' = "prompt"
  /\ m_inp' = <<>>
  /\ m_ret' = NoValue
  /\ UNCHANGED dictVars

DataNext ==
  \/ MPrompt
  \/ MEntry
  \/ MRetry
  \/ MCall

DataSpec == Init /\ [][DataNext]_vars

\* The listener leaves position p in this step.
HkLeaves(p) == hk_pc = p /\ hk_pc' # p

\* The thread of worker w ends in this step.
WorkerEndsNow(w) == WorkerLive(w) /\ w_pc'[w] \in WorkerTerminated

\* The last start attempt failed to open its stream: the listener is between
\* handlers, a session was attempted, its stream is not running and no worker
\* was spawned for it.
AfterFailedStart ==
  /\ hk_pc \in {"wait", "on_press", "on_release"}
  /\ session > 0
  /\ audio_stream # "active"
  /\ w_pc[session] = "none"

\* C1 (as claimed): after every release that ends a Recording session the
\* indicator is set back to Idle, whatever was captured and whatever the
\* transcription outcome: when the worker of the session ends (other than by
\* a failing indicator update) the indicator shows Idle.
C1_IndicatorRevertsToIdle ==
  [][\A w \in Sessions :
       (WorkerEndsNow(w) /\ w_pc'[w] # "icon_failed") => icon_state' = "Idle"]_vars

\* C2 (as claimed): a hotkey press handled while a worker is spawned and not
\* finished neither clears or replaces the accumulator nor opens a stream.
C2_NoStartWhileTranscribing ==
  [][Transcribing =>
       /\ HkLeaves("on_press") => current_audio_data' = current_audio_data
       /\ audio_stream' = "active" => audio_stream = "active"]_vars

\* C3 (as claimed): a start whose stream fails to open does not leave the
\* indicator at Listening.
C3_FailedOpenNotListening ==
  [][(HkLeaves("start_open") /\ audio_stream' # "active")
       => icon_state' # "Listening"]_vars

\* C4: when opening the stream fails, is_recording is false when
\* start_recording returns and stays false until the next press, the release
\* that follows spawns no worker, and the next hotkey press starts a new
\* session (is_recording set, accumulator emptied, session opened).
C4_FailedOpenLeavesIdle ==
  /\ [](AfterFailedStart => ~is_recording)
  /\ [][/\ (HkLeaves("start_open") /\ audio_stream' # "active")
             => (~is_recording' /\ hk_pc' = "wait" /\ w_pc' = w_pc)
        /\ (AfterFailedStart /\ HkLeaves("on_release"))
             => (hk_pc' = "wait" /\ w_pc' = w_pc)
        /\ (AfterFailedStart /\ HkLeaves("on_press") /\ key = HOTKEY_KEY)
             => (/\ hk_pc' = "start_icon"
                 /\ is_recording'
                 /\ current_audio_data' = <<>>
                 /\ session' = session + 1)]_vars

\* A first session failed to open its stream and the next press opened one.
C4_Witness ==
  /\ session = 2
  /\ w_pc[1] = "none"
  /\ is_recording
  /\ audio_stream = "active"

\* C5: a hotkey press handled while is_recording is set returns at the guard:
\* still recording, accumulator unchanged, no stream opened, no new session.
C5_PressWhileRecordingNoop ==
  [][(HkLeaves("on_press") /\ key = HOTKEY_KEY /\ is_recording)
       => /\ hk_pc' = "wait"
          /\ is_recording'
          /\ current_audio_data' = current_audio_data
          /\ audio_stream' = audio_stream
          /\ session' = session]_vars

\* A repeated press returned at the guard while frames were in the accumulator.
C5_Witness ==
  /\ hk_last = "press_noop"
  /\ is_recording
  /\ Len(current_audio_data) > 0

\* C6: a hotkey release handled while is_recording is clear returns at the
\* guard: no state change, no worker spawned, so no Transcriber or Typist call.
C6_ReleaseWhileIdleNoop ==
  [][(HkLeaves("on_release") /\ key = HOTKEY_KEY /\ ~is_recording)
       => /\ hk_pc' = "wait"
          /\ UNCHANGED <<is_recording, current_audio_data, icon_state,
                         audio_stream, session, w_pc, w_audio, w_text,
                         w_keys>>]_vars

\* A release whose press was never seen returned at the guard.
C6_Witness ==
  /\ hk_last = "release_noop"
  /\ session = 0
  /\ \A w \in Sessions : w_pc[w] = "none"

\* C7: the accumulator holds only frames captured during the current session.
C7_NoResidualFrames ==
  \A i \in 1..Len(current_audio_data) : current_audio_data[i][1] = session

\* A second session has appended a frame after a first one that had frames.
C7_Witness ==
  /\ session = 2
  /\ Len(current_audio_data) > 0
  /\ delivered[1] # <<>>

\* C8 (as claimed): the audio a worker hands to the Transcriber is exactly
\* the frames the callback appended during the session of that worker, in
\* arrival order.
C8_WorkerAudioIsOwnSession ==
  \A w \in Sessions :
    w_pc[w] \in {"transcribe", "type", "finally"} => w_audio[w] = delivered[w]

\* The press+release pair of character c is in the events of worker w.
PairEmitted(w, c) ==
  \E p \in 1..(Len(w_keys[w]) - 1) :
    w_keys[w][p] = <<"press", c>> /\ w_keys[w][p + 1] = <<"release", c>>

\* C9 (as claimed): when injecting a character fails, the pairs of all the
\* characters after it are still emitted (w_i is the character that failed).
C9_TypingContinuesAfterFailure ==
  \A w \in Sessions :
    (w_pc[w] = "finally" /\ w_text[w] # <<>>)
      => \A j \in 1..Len(w_text[w]) :
           j > w_i[w] => PairEmitted(w, w_text[w][j])

\* C10 (as claimed): whether or not the indicator update succeeds, the start
\* path goes on to open the stream and the stop path goes on to spawn the
\* worker.
C10_IndicatorFailureDoesNotAbort ==
  [][/\ HkLeaves("start_icon") => hk_pc' = "start_open"
     /\ HkLeaves("stop_icon") => hk_pc' = "spawn"]_vars

\* type_text has been called by worker w (its loop variable is set).
TypistInvoked(w) == w_i[w] >= 1

\* C11: in every session type_text is called if and only if transcribed_text
\* is non-empty (an empty or failed transcription emits no key event), and
\* every key event of a worker is emitted before it reverts the indicator:
\* the indicator is set to Idle only by a worker that has left type_text, and
\* a worker emits nothing at or after that step.
C11_TypistIffTextThenRevert ==
  /\ [](\A w \in Sessions :
          w_pc[w] \in {"type", "finally"} =>
            /\ TypistInvoked(w) <=> (w_text[w] # <<>>)
            /\ ~TypistInvoked(w) => w_keys[w] = <<>>)
  /\ [][\A w \in Sessions :
          /\ (w_pc[w] = "transcribe" /\ w_pc'[w] # "transcribe")
               => ((w_pc'[w] = "type") <=> (w_text'[w] # <<>>))
          /\ (w_pc[w] \in {"finally"} \cup WorkerTerminated)
               => Len(w_keys'[w]) <= Len(w_keys[w])
          /\ (w_pc'[w] = "done" /\ w_pc[w] # "done")
               => (w_pc[w] = "finally" /\ icon_state' = "Idle")]_vars

\* A worker typed the whole of "hi" and is about to revert the indicator.
C11_Witness ==
  \E w \in Sessions :
    /\ w_pc[w] = "finally"
    /\ w_text[w] = <<"h", "i">>
    /\ Len(w_keys[w]) = 4
    /\ icon_state = "Transcribing"

\* C12: in the first session (hotkey engaged from Idle, one or more frames
\* appended, hotkey released) whose worker got no text from the Transcriber and
\* completes, the indicator states observed are exactly Idle, Listening,
\* Transcribing, Idle, and type_text is never called.
C12_EmptyTextScenario ==
  /\ [](session = 1 /\ w_pc[1] = "finally" /\ w_text[1] = <<>>
          => /\ observed = <<"Idle", "Listening", "Transcribing">>
             /\ Len(w_audio[1]) >= 1
             /\ ~TypistInvoked(1)
             /\ w_keys[1] = <<>>)
  /\ [][(session = 1 /\ w_pc[1] = "finally" /\ w_text[1] = <<>>
           /\ w_pc'[1] = "done")
          => observed' = <<"Idle", "Listening", "Transcribing", "Idle">>]_vars

\* The first session has ended with frames captured, the four indicator
\* states observed and no call of type_text among them.
C12_Witness ==
  /\ session = 1
  /\ w_pc[1] = "done"
  /\ Len(current_audio_data) >= 1
  /\ observed = <<"Idle", "Listening", "Transcribing", "Idle">>

\* press(c1), release(c1), ..., press(cn), release(cn) for the text c1..cn
RECURSIVE PressReleasePairs(_)
PressReleasePairs(text) ==
  IF text = <<>> THEN <<>>
  ELSE << <<"press", Head(text)>>, <<"release", Head(text)>> >>
         \o PressReleasePairs(Tail(text))

\* C13: while type_text runs without an injection failure the events emitted
\* are the press+release pairs of the characters handled so far, and when its
\* loop has completed they are exactly the pairs of the whole text, in order.
C13_OnePairPerCharacter ==
  \A w \in Sessions :
    /\ w_pc[w] = "type"
         => w_keys[w] = PressReleasePairs(SubSeq(w_text[w], 1, w_i[w] - 1))
    /\ (w_pc[w] = "finally" /\ w_text[w] # <<>>
          /\ w_i[w] = Len(w_text[w]) + 1)
         => w_keys[w] = PressReleasePairs(w_text[w])

\* type_text has completed its loop over the two characters of "hi".
C13_Witness ==
  \E w \in Sessions :
    /\ w_pc[w] = "finally"
    /\ w_text[w] = <<"h", "i">>
    /\ w_i[w] = 3
    /\ w_keys[w] = << <<"press", "h">>, <<"release", "h">>,
                      <<"press", "i">>, <<"release", "i">> >>

\* every variable of the dictation tool except alive
dictVarsButAlive ==
  <<is_recording, current_audio_data, icon_state, audio_stream, hk_pc, key,
    hk_last, session, nframes, cb_pc, delivered, w_pc, w_audio, w_text, w_i,
    w_keys, observed>>

RECURSIVE Decimal(_)
Decimal(n) ==
  LET c == <<"0", "1", "2", "3", "4", "5", "6", "7", "8", "9">>[(n % 10) + 1]
  IN IF n < 10 THEN <<c>> ELSE Append(Decimal(n \div 10), c)

\* the numeral of a + b/10 (d = 1), or of a (d = 0)
Numeral(a, b, d) ==
  IF d = 0 THEN Decimal(a) ELSE Decimal(a) \o <<".">> \o Decimal(b)

Spaces(n) == [i \in 1..n |-> " "]

Units == {<<>>, UnitMB, UnitGB, UnitTB}

\* megabytes per unit, as the documentation states them
MegabytesPer(u) ==
  IF u = UnitTB THEN 1048576 ELSE IF u = UnitGB THEN 1024 ELSE 1

\* the entered line is the number a + b/10 (d = 1) or a (d = 0), blanks, unit u
EnteredAs(a, b, d, sp, u) ==
  Upper(m_inp) = Numeral(a, b, d) \o Spaces(sp) \o u

\* C15: parse_size converts a non-negative number n followed by an optional
\* unit to megabytes: n TB gives n*1024*1024, n GB gives n*1024, n MB and a
\* bare n give n; "10 GB" gives 10240, "500 MB" gives 500, "1 TB" gives
\* 1048576. Every such entry is accepted, and the value returned for it is
\* the number times the megabytes of its unit.
C15_ParseSizeToMegabytes ==
  /\ [](m_pc = "returned" =>
          /\ \A a \in 0..MaxNumber, b \in 0..9, d \in 0..1, sp \in 0..2, u \in Units :
               EnteredAs(a, b, d, sp, u) =>
                 /\ m_ret.set
                 /\ m_ret.m * Pow10(d) =
                      (a * Pow10(d) + b * d) * MegabytesPer(u) * Pow10(m_ret.d)
          /\ m_inp = <<"1", "0", " ", "G", "B">> =>
               m_ret = [m |-> 10240, d |-> 0, set |-> TRUE]
          /\ m_inp = <<"5", "0", "0", " ", "M", "B">> =>
               m_ret = [m |-> 500, d |-> 0, set |-> TRUE]
          /\ m_inp = <<"1", " ", "T", "B">> =>
               m_ret = [m |-> 1048576, d |-> 0, set |-> TRUE])
  /\ [][(m_pc = "entered" /\ m_pc' # m_pc
          /\ \E a \in 0..MaxNumber, b \in 0..9, d \in 0..1, sp \in 0..2, u \in Units :
               EnteredAs(a, b, d, sp, u))
        => m_pc' = "returned"]_vars

C15_Witness ==
  /\ m_pc = "returned"
  /\ m_inp = <<"1", "0", " ", "G", "B">>
  /\ m_ret = [m |-> 10240, d |-> 0, set |-> TRUE]

\* a number: digits with at most one decimal point, and at least one digit
IsNumber(v) ==
  /\ v # <<>>
  /\ \A i \in 1..Len(v) : v[i] \in Digits \cup {"."}
  /\ Cardinality({i \in 1..Len(v) : v[i] = "."}) <= 1
  /\ \E i \in 1..Len(v) : v[i] \in Digits

\* a number, optionally followed by blanks and by MB, GB or TB in either case
WellFormed(s) ==
  \E i \in 1..Len(s), j \in 1..Len(s) :
    /\ i <= j
    /\ IsNumber(SubSeq(s, 1, i))
    /\ \A k \in (i + 1)..j : s[k] = " "
    /\ Upper(SubSeq(s, j + 1, Len(s))) \in Units

\* C16 (as stated): manual_entry returns only once a well-formed size has
\* been entered.
C16_ReturnsOnlyWellFormed ==
  m_pc = "returned" => WellFormed(m_inp)

\* C16: manual_entry never turns a malformed entry into a number: every
\* non-blank entry that is not a number optionally followed by MB, GB or TB
\* is rejected and the user is prompted again; it returns once a well-formed
\* size has been entered, or 0 for a blank entry.
C16_RejectsMalformed ==
  /\ [](m_pc = "returned" =>
          \/ WellFormed(m_inp)
          \/ m_inp = <<>> /\ m_ret = [m |-> 0, d |-> 0, set |-> TRUE])
  /\ [](m_pc = "rejected" => m_inp # <<>> /\ ~WellFormed(m_inp) /\ m_ret = NoValue)
  /\ [][(m_pc = "entered" /\ m_pc' # m_pc /\ m_inp # <<>> /\ ~WellFormed(m_inp))
        => m_pc' = "rejected"]_vars
  /\ [][m_pc = "rejected" /\ m_pc' # m_pc => m_pc' = "prompt"]_vars

C16_Witness ==
  /\ m_pc = "rejected"
  /\ m_inp = <<"1", ".", ".">>

\* C17 (as claimed): when the worker of an earlier session ends while a newer
\* session is Recording or has its own transcription in flight, the indicator
\* is left as it is.
C17_StaleCompletionKeepsIndicator ==
  [][\A w \in Sessions :
       (WorkerEndsNow(w) /\ w < session
          /\ (is_recording \/ WorkerLive(session)))
       => icon_state' = icon_state]_vars

\* C18 (as claimed): at most one transcription worker is live at any time.
C18_AtMostOneLiveWorker ==
  Cardinality({w \in Sessions : WorkerLive(w)}) <= 1

\* The callback delivers a frame in this step.
FrameDelivered == nframes' = nframes + 1

C20_EmptyWhenIdle ==
  (hk_pc = "wait" /\ ~is_recording /\ ~Transcribing)
    => current_audio_data = <<>>

\* C20: the worker only reads the accumulator and never mutates it: the
\* accumulator changes only when the callback appends one frame or when the
\* next Idle -> Recording transition replaces it by an empty list, so it keeps
\* the frames of the last session after the transcription has finished or
\* failed, until the next recording starts.
C20_WorkerOnlyReadsAccumulator ==
  /\ [][current_audio_data' # current_audio_data
        => \/ /\ cb_pc = "append" /\ cb_pc' = "idle"
              /\ current_audio_data' =
                   Append(current_audio_data, <<session, nframes>>)
           \/ /\ HkLeaves("on_press") /\ is_recording'
              /\ current_audio_data' = <<>>]_vars
  /\ [][\A w \in Sessions :
          (w_pc'[w] # w_pc[w] /\ w_pc[w] # "none")
          => current_audio_data' = current_audio_data]_vars
  /\ [](hk_pc \in {"start_icon", "start_open"} => current_audio_data = <<>>)

\* the session is Idle, its worker has finished, the frames are still there
C20_Witness ==
  /\ hk_pc = "wait" /\ ~is_recording /\ ~Transcribing
  /\ session >= 1 /\ w_pc[session] = "done"
  /\ current_audio_data # <<>>

TypeOK ==
  /\ alive \in BOOLEAN
  /\ is_recording \in BOOLEAN
  /\ icon_state \in {"Idle", "Listening", "Transcribing"}
  /\ audio_stream \in {"none", "unstarted", "active", "closed"}
  /\ hk_pc \in {"wait", "on_press", "on_release", "start_icon", "start_open",
                "stop_stream", "stop_icon", "spawn", "stopped"}
  /\ session \in 0..MaxSessions
  /\ nframes \in 0..MaxFrames
  /\ cb_pc \in {"idle", "append"}
====
